---- MODULE Spec2Model ----
(***************************************************************************)
(* A model of Stopwatch (src/Stopwatch.hpp): a recorder of labelled        *)
(* time points and the trace that getTimingTrace() renders from them.      *)
(*                                                                         *)
(* Time is counted in nanoseconds, the period of high_resolution_clock.    *)
(* Sequences are 1-based here and 0-based in the source: the source's      *)
(* measurements[0] is measurements[1] below.                               *)
(***************************************************************************)
EXTENDS Integers, Sequences, FiniteSets

VARIABLES
    clock,          \* the latest reading high_resolution_clock::now() returned
    measurements,   \* Stopwatch::measurements: pairs (first: label, second: time point)
    samples,        \* Stopwatch::samples: pairs (first: label, second: sample count)
    added,          \* for each measurement, the call that appended it
    calls,          \* how many member functions have run
    op,             \* the member function that ran last, with its arguments
    ret             \* what it returned: the trace's lines, <<>> for a void function

vars == <<clock, measurements, samples, added, calls, op, ret>>

---------------------------------------------------------------------------
(* Bounds of the model.                                                    *)

MaxMeasurements == 3
MaxCalls == 3

(* The labels and sample counts the callers pass, and how far the clock    *)
(* moves between two readings.                                              *)
Labels == {"", "phase1"}
SampleCounts == {-2, 0, 1, 3}
StartTimes == {5000}
Steps == {0, 1500}
BackSteps == {600}

---------------------------------------------------------------------------
(* Program constants.                                                      *)

NanosPerMicro == 1000
MicrosPerSecond == 1000000
StreamPrecision == 6

---------------------------------------------------------------------------
(* high_resolution_clock::now().  The standard lets high_resolution_clock  *)
(* be an alias of system_clock or of steady_clock; it is system_clock in   *)
(* libstdc++, and system_clock follows the wall clock, which may be set    *)
(* back.  A reading is therefore the previous reading moved forward by a   *)
(* step, or moved back by one.                                             *)
NowSet == {clock + s : s \in Steps} \cup {clock - b : b \in BackSteps}

Abs(x) == IF x < 0 THEN -x ELSE x

(* duration_cast<microseconds>(d).count() of a nanosecond duration: an     *)
(* integer division that truncates toward zero.                            *)
Micros(d) ==
    IF d < 0 THEN -((-d) \div NanosPerMicro) ELSE d \div NanosPerMicro

RECURSIVE Pow10(_)
Pow10(n) == IF n = 0 THEN 1 ELSE 10 * Pow10(n - 1)

(* a / b rounded to the nearest integer, a tie to the even one.            *)
RoundDiv(a, b) ==
    LET q == a \div b
        r == a % b
    IN  IF 2 * r < b THEN q
        ELSE IF 2 * r > b THEN q + 1
        ELSE IF q % 2 = 0 THEN q ELSE q + 1

(* The StreamPrecision significant digits of a / b (a, b > 0), as          *)
(* mant * 10^(e + k) where k is the number of times a / b was scaled.      *)
RECURSIVE Significant(_, _, _)
Significant(a, b, e) ==
    IF a \div b >= Pow10(StreamPrecision)
      THEN Significant(a, b * 10, e + 1)
    ELSE IF a \div b < Pow10(StreamPrecision - 1)
      THEN Significant(a * 10, b, e - 1)
    ELSE LET m == RoundDiv(a, b)
         IN  IF m = Pow10(StreamPrecision)
               THEN [mant |-> Pow10(StreamPrecision - 1), exp |-> e + 1]
               ELSE [mant |-> m, exp |-> e]

(* operator<<(double) of  micros / 1000000.0 / count  on a stream with the *)
(* default format: the value's sign and its six significant digits, read   *)
(* as mant * 10^exp seconds, or inf / nan when the count is zero.  The     *)
(* count is 1 for a line that divides by 1000000.0 alone.                  *)
RECURSIVE Log10(_)
Log10(n) == IF n < 10 THEN 0 ELSE 1 + Log10(n \div 10)

Render(micros, count) ==
    IF count = 0 THEN
        [class |-> IF micros = 0 THEN "nan" ELSE "inf",
         neg |-> micros < 0, mant |-> 0, exp |-> 0]
    ELSE IF micros = 0 THEN
        [class |-> "num", neg |-> count < 0, mant |-> 0, exp |-> 0]
    ELSE
        LET s == Significant(Abs(micros), Abs(count), -Log10(MicrosPerSecond))
        IN  [class |-> "num", neg |-> (micros < 0) # (count < 0),
             mant |-> s.mant, exp |-> s.exp]

---------------------------------------------------------------------------
(* The lines of the trace.                                                 *)

(* "Total; start -> now: <total / 1000000.0>s"                             *)
TotalLine(end) ==
    [kind |-> "total", prev |-> "start", cur |-> "now",
     value |-> Render(Micros(end - measurements[1].second), 1)]

(* The duration of the loop's iteration `measurement` (2..size here).      *)
Duration(measurement) ==
    Micros(measurements[measurement].second
             - measurements[measurement - 1].second)

(* "<previous> -> <current>: <duration / 1000000.0>s"                      *)
IntervalLine(measurement) ==
    [kind |-> "interval",
     prev |-> measurements[measurement - 1].first,
     cur |-> measurements[measurement].first,
     value |-> Render(Duration(measurement), 1)]

(* A per-sample line that forgets to divide by the sample count.           *)
SampleLineUndivided(measurement, sample) ==
    [kind |-> "sample",
     prev |-> measurements[measurement - 1].first,
     cur |-> measurements[measurement].first,
     value |-> Render(Duration(measurement), 1)]

(* "<previous> -> <current> per sample: <duration / 1000000.0 / count>s"   *)
SampleLine(measurement, sample) ==
    [kind |-> "sample",
     prev |-> measurements[measurement - 1].first,
     cur |-> measurements[measurement].first,
     value |-> Render(Duration(measurement), sample.second)]

(* An inner loop that stops at the first entry with the label.             *)
RECURSIVE SampleLinesFirstMatch(_, _)
SampleLinesFirstMatch(measurement, j) ==
    IF j > Len(samples) THEN <<>>
    ELSE IF samples[j].first = measurements[measurement].first
           THEN <<SampleLine(measurement, samples[j])>>
           ELSE SampleLinesFirstMatch(measurement, j + 1)

(* The inner loop: every entry of samples, in order, whose label is the    *)
(* current measurement's.                                                  *)
RECURSIVE SampleLines(_, _)
SampleLines(measurement, j) ==
    IF j > Len(samples) THEN <<>>
    ELSE (IF samples[j].first = measurements[measurement].first
            THEN <<SampleLine(measurement, samples[j])>>
            ELSE <<>>)
         \o SampleLines(measurement, j + 1)

(* An outer loop that stops one measurement early.                         *)
RECURSIVE IntervalLinesShort(_)
IntervalLinesShort(measurement) ==
    IF measurement >= Len(measurements) THEN <<>>
    ELSE <<IntervalLine(measurement)>>
         \o SampleLines(measurement, 1)
         \o IntervalLinesShort(measurement + 1)

(* The outer loop, from `measurement` to the last measurement.             *)
RECURSIVE IntervalLines(_)
IntervalLines(measurement) ==
    IF measurement > Len(measurements) THEN <<>>
    ELSE <<IntervalLine(measurement)>>
         \o SampleLines(measurement, 1)
         \o IntervalLines(measurement + 1)

(* The string getTimingTrace() returns when its clock reading is `end`.    *)
TimingTrace(end) == <<TotalLine(end)>> \o IntervalLines(2)

---------------------------------------------------------------------------
(* The member functions.                                                   *)

Call(name, label, sampled, count) ==
    [name |-> name, label |-> label, sampled |-> sampled, count |-> count]

(* Stopwatch::Stopwatch()                                                  *)
Init ==
    /\ \E start \in StartTimes :
        /\ clock = start
        /\ measurements = <<[first |-> "start", second |-> start]>>
    /\ samples = <<>>
    /\ added = <<Call("Stopwatch", "start", FALSE, 0)>>
    /\ calls = 0
    /\ op = Call("Stopwatch", "", FALSE, 0)
    /\ ret = <<>>

(* An addMeasurement that inserts at the front of the vector.              *)
AddMeasurementFront(label) ==
    /\ Len(measurements) < MaxMeasurements
    /\ calls < MaxCalls
    /\ calls' = calls + 1
    /\ \E now \in NowSet :
        /\ clock' = now
        /\ measurements' = <<[first |-> label, second |-> now]>> \o measurements
    /\ UNCHANGED samples
    /\ added' = <<Call("addMeasurement", label, FALSE, 0)>> \o added
    /\ op' = Call("addMeasurement", label, FALSE, 0)
    /\ ret' = <<>>

(* void Stopwatch::addMeasurement(string label)                            *)
AddMeasurement(label) ==
    /\ Len(measurements) < MaxMeasurements
    /\ calls < MaxCalls
    /\ calls' = calls + 1
    /\ \E now \in NowSet :
        /\ clock' = now
        /\ measurements' = Append(measurements, [first |-> label, second |-> now])
    /\ UNCHANGED samples
    /\ added' = Append(added, Call("addMeasurement", label, FALSE, 0))
    /\ op' = Call("addMeasurement", label, FALSE, 0)
    /\ ret' = <<>>

(* A sampled addMeasurement that refuses a sample count below one.         *)
AddMeasurementSamplesChecked(label, count) ==
    /\ count >= 1
    /\ Len(measurements) < MaxMeasurements
    /\ calls < MaxCalls
    /\ calls' = calls + 1
    /\ \E now \in NowSet :
        /\ clock' = now
        /\ measurements' = Append(measurements, [first |-> label, second |-> now])
    /\ samples' = Append(samples, [first |-> label, second |-> count])
    /\ added' = Append(added, Call("addMeasurement", label, TRUE, count))
    /\ op' = Call("addMeasurement", label, TRUE, count)
    /\ ret' = <<>>

(* A sampled addMeasurement that keeps one sample count per label, as a    *)
(* map would: an entry with the label is overwritten.                      *)
AddMeasurementSamplesKeyed(label, count) ==
    /\ Len(measurements) < MaxMeasurements
    /\ calls < MaxCalls
    /\ calls' = calls + 1
    /\ \E now \in NowSet :
        /\ clock' = now
        /\ measurements' = Append(measurements, [first |-> label, second |-> now])
    /\ samples' =
          IF \E j \in DOMAIN samples : samples[j].first = label
            THEN [j \in DOMAIN samples |->
                    IF samples[j].first = label
                      THEN [first |-> label, second |-> count]
                      ELSE samples[j]]
            ELSE Append(samples, [first |-> label, second |-> count])
    /\ added' = Append(added, Call("addMeasurement", label, TRUE, count))
    /\ op' = Call("addMeasurement", label, TRUE, count)
    /\ ret' = <<>>

(* void Stopwatch::addMeasurement(const string label, int samples)         *)
AddMeasurementSamples(label, count) ==
    /\ Len(measurements) < MaxMeasurements
    /\ calls < MaxCalls
    /\ calls' = calls + 1
    /\ \E now \in NowSet :
        /\ clock' = now
        /\ measurements' = Append(measurements, [first |-> label, second |-> now])
    /\ samples' = Append(samples, [first |-> label, second |-> count])
    /\ added' = Append(added, Call("addMeasurement", label, TRUE, count))
    /\ op' = Call("addMeasurement", label, TRUE, count)
    /\ ret' = <<>>

(* string Stopwatch::getTimingTrace()                                      *)
GetTimingTrace ==
    /\ calls < MaxCalls
    /\ calls' = calls + 1
    /\ \E end \in NowSet :
        /\ clock' = end
        /\ ret' = TimingTrace(end)
    /\ UNCHANGED <<measurements, samples, added>>
    /\ op' = Call("getTimingTrace", "", FALSE, 0)

Next ==
    \/ \E label \in Labels : AddMeasurement(label)
    \/ \E label \in Labels, count \in SampleCounts :
          AddMeasurementSamples(label, count)
    \/ GetTimingTrace

Spec == Init /\ [][Next]_vars

---------------------------------------------------------------------------
(* Reading a returned trace.                                               *)

(* getTimingTrace() ran last: ret is its trace of the current measurements *)
(* and samples, and clock is the reading it took.                          *)
Returned == op.name = "getTimingTrace"

KindCount(kind) == Cardinality({p \in DOMAIN ret : ret[p].kind = kind})

(* Where the interval line that ends at measurement m stands in ret.       *)
IntervalAt(m) ==
    CHOOSE p \in DOMAIN ret :
        /\ ret[p].kind = "interval"
        /\ Cardinality({q \in 1..p : ret[q].kind = "interval"}) = m - 1

(* The "per sample" lines that directly follow that interval line.         *)
Block(m) ==
    LET p == IntervalAt(m)
        n == Cardinality({q \in (p + 1)..Len(ret) :
                            \A r \in (p + 1)..q : ret[r].kind = "sample"})
    IN  SubSeq(ret, p + 1, p + n)

(* The sample entries whose label is measurement m's, in insertion order.  *)
Matching(m) ==
    SelectSeq(samples, LAMBDA e : e.first = measurements[m].first)

(* The microseconds between measurement m and the one before it.           *)
Elapsed(m) == Micros(measurements[m].second - measurements[m - 1].second)

IsPrefix(s, t) == Len(s) <= Len(t) /\ SubSeq(t, 1, Len(s)) = s

(* x <= y for two rendered finite values.                                  *)
MagLE(x, y) ==
    \/ x.mant = 0
    \/ /\ y.mant # 0
       /\ \/ x.exp < y.exp
          \/ x.exp = y.exp /\ x.mant <= y.mant

ValueLE(x, y) ==
    IF x.neg /\ ~y.neg THEN TRUE
    ELSE IF ~x.neg /\ y.neg THEN x.mant = 0 /\ y.mant = 0
    ELSE IF ~x.neg THEN MagLE(x, y)
    ELSE MagLE(y, x)

RECURSIVE SumElapsed(_)
SumElapsed(m) == IF m < 2 THEN 0 ELSE Elapsed(m) + SumElapsed(m - 1)

---------------------------------------------------------------------------
C2_StartFirst ==
    /\ Len(measurements) >= 1
    /\ 1 \in DOMAIN measurements
    /\ measurements[1].first = "start"
    /\ measurements[1].second \in StartTimes
    /\ added[1].name = "Stopwatch"

C2_Witness ==
    /\ Returned
    /\ Len(measurements) >= 3
    /\ Len(samples) >= 1

(* C3: the time points of the measurement sequence never decrease in      *)
(* insertion order, and no interval line of a returned trace is negative.  *)
C3_NonDecreasing ==
    /\ \A m \in 2..Len(measurements) :
          measurements[m - 1].second <= measurements[m].second
    /\ Returned =>
          \A m \in 2..Len(measurements) :
              /\ Elapsed(m) >= 0
              /\ ~ret[IntervalAt(m)].value.neg

(* C4: getTimingTrace() changes neither sequence; a second call with no    *)
(* addMeasurement in between returns the same interval and "per sample"    *)
(* lines and a Total that is not smaller than the first call's.            *)
C4_RepeatableTrace ==
    [][(op'.name = "getTimingTrace" /\ calls' # calls) =>
          /\ measurements' = measurements
          /\ samples' = samples
          /\ Returned =>
                /\ Tail(ret') = Tail(ret)
                /\ ValueLE(ret[1].value, ret'[1].value)]_vars

(* C5: a measurement added with a sample count k >= 1 has, after its       *)
(* interval line, a "per sample" line whose value is the interval d        *)
(* divided by k, and with k = 1 that value is the interval line's own.     *)
C5_PerSampleQuotient ==
    Returned =>
        \A m \in 2..Len(measurements) :
            (added[m].sampled /\ added[m].count >= 1) =>
                \E j \in 1..Len(Block(m)) :
                    /\ Block(m)[j].kind = "sample"
                    /\ Block(m)[j].prev = measurements[m - 1].first
                    /\ Block(m)[j].cur = measurements[m].first
                    /\ Block(m)[j].value = Render(Elapsed(m), added[m].count)
                    /\ added[m].count = 1 =>
                          Block(m)[j].value = ret[IntervalAt(m)].value

C5_Witness ==
    /\ Returned
    /\ \E m \in 2..Len(measurements) :
          /\ added[m].sampled
          /\ added[m].count > 1
          /\ Elapsed(m) > 0
    /\ \E m \in 2..Len(measurements) :
          /\ added[m].sampled
          /\ added[m].count = 1
          /\ Elapsed(m) > 0

(* C6: the "per sample" lines after the interval line that ends at a       *)
(* measurement are, in sample insertion order, one line for every entry    *)
(* of the whole sample sequence that carries the measurement's label,      *)
(* each the interval divided by that entry's count: none when no entry     *)
(* carries the label, several when labels collide, also for a measurement  *)
(* added without a sample count.                                           *)
C6_OneLinePerMatch ==
    Returned =>
        \A m \in 2..Len(measurements) :
            /\ ret[IntervalAt(m)].prev = measurements[m - 1].first
            /\ ret[IntervalAt(m)].cur = measurements[m].first
            /\ Len(Block(m)) = Len(Matching(m))
            /\ \A j \in 1..Len(Matching(m)) :
                  Block(m)[j] =
                      [kind |-> "sample",
                       prev |-> measurements[m - 1].first,
                       cur |-> measurements[m].first,
                       value |-> Render(Elapsed(m), Matching(m)[j].second)]

C6_Witness ==
    /\ Returned
    /\ \E m \in 2..Len(measurements) :
          /\ Len(Block(m)) >= 2
          /\ Block(m)[1] # Block(m)[2]

(* The clock has not been seen to step back: the time points do not       *)
(* decrease and the latest reading is not before the last of them.         *)
Forward ==
    /\ \A m \in 2..Len(measurements) :
          measurements[m - 1].second <= measurements[m].second
    /\ measurements[Len(measurements)].second <= clock

(* C7: a returned trace holds the time elapsed from "start" to each        *)
(* measurement, and from each measurement to the next.  It is stated for   *)
(* the runs whose clock never steps back, where C3 is not at stake.        *)
C7_ElapsedFromStart ==
    (Returned /\ Forward) =>
        \A m \in 2..Len(measurements) :
            /\ ret[IntervalAt(m)].value = Render(Elapsed(m), 1)
            /\ \E p \in DOMAIN ret :
                  /\ ret[p].prev = "start"
                  /\ ret[p].cur = measurements[m].first
                  /\ ret[p].value =
                        Render(Micros(measurements[m].second
                                        - measurements[1].second), 1)

(* C8: the sampled addMeasurement takes every label and every sample       *)
(* count, and a later trace still has its Total line, every interval line  *)
(* and the "per sample" line of a count that is zero (infinite or NaN) or  *)
(* negative (the interval's sign reversed).                                *)
C8_DegenerateAccepted ==
    /\ (Len(measurements) < MaxMeasurements /\ calls < MaxCalls) =>
          \A label \in Labels \cup {"start"}, count \in SampleCounts :
              ENABLED AddMeasurementSamples(label, count)
    /\ Returned =>
          /\ ret[1].kind = "total"
          /\ KindCount("interval") = Len(measurements) - 1
          /\ \A m \in 2..Len(measurements) :
                (added[m].sampled /\ added[m].count <= 0) =>
                    \E j \in 1..Len(Block(m)) :
                        /\ Block(m)[j].kind = "sample"
                        /\ added[m].count = 0 =>
                              Block(m)[j].value.class \in {"inf", "nan"}
                        /\ added[m].count < 0 =>
                              /\ Block(m)[j].value.class = "num"
                              /\ Block(m)[j].value.neg = (Elapsed(m) >= 0)

C8_Witness ==
    /\ Returned
    /\ \E m \in 2..Len(measurements) :
          /\ added[m].sampled
          /\ added[m].count = 0
          /\ added[m].label = ""
    /\ \E m \in 2..Len(measurements) :
          /\ added[m].sampled
          /\ added[m].count < 0
          /\ Elapsed(m) > 0

(* C9: the unsampled addMeasurement appends one (label, now) measurement   *)
(* and leaves the samples alone; the sampled one appends one (label, now)  *)
(* measurement and one (label, k) sample; no step removes, reorders or     *)
(* changes an entry, so each sequence is a prefix of its next state, and   *)
(* the samples are never more than the measurements less one.              *)
C9_AppendOnly ==
    [][/\ (op'.name = "addMeasurement" /\ calls' # calls) =>
              /\ measurements' =
                    Append(measurements, [first |-> op'.label, second |-> clock'])
              /\ samples' =
                    IF op'.sampled
                      THEN Append(samples,
                                  [first |-> op'.label, second |-> op'.count])
                      ELSE samples
       /\ IsPrefix(measurements, measurements')
       /\ IsPrefix(samples, samples')
       /\ Len(samples') <= Len(measurements') - 1]_vars

C9_Witness ==
    /\ Len(samples) >= 1
    /\ Len(measurements) > Len(samples) + 1
    /\ Returned

(* C10: the Total of a returned trace is the time from the "start"         *)
(* measurement to the clock reading of the call, and, in whole             *)
(* microseconds, it is at least the sum of the trace's intervals.          *)
C10_TotalCoversIntervals ==
    Returned =>
        /\ ret[1].value = Render(Micros(clock - measurements[1].second), 1)
        /\ Micros(clock - measurements[1].second)
              >= SumElapsed(Len(measurements))

====
